---- MODULE Spec2Model ----
(***************************************************************************)
(* The two unemployment dashboards (economics_dashboard.py, "v1", and      *)
(* economics_dashboard_3cols.py, "v2").                                    *)
(*                                                                         *)
(* State-level section: the memoised FRED fetch get_series, the left-join  *)
(* construction of comparison_df, the common date range, the date filter,  *)
(* the line chart, the table/download and the state choropleth.            *)
(*                                                                         *)
(* County-level section: the memoised loader load_county_data of the bulk  *)
(* parish file and the views built from its dataset.  The two sections     *)
(* share no data; the county-level section runs when the state-level       *)
(* section has ended without raising, and is explored by a specification   *)
(* of its own (SpecCounty).                                                *)
(*                                                                         *)
(* A DataFrame is a record [columns, rows]: columns is the sequence of     *)
(* column names, rows a sequence of functions from column names to cells.  *)
(* The "Date" cell is a day number; FRED dates carry no time of day, so    *)
(* the Timestamp -> date -> Timestamp trip of st.date_input/pd.to_datetime *)
(* keeps the day number.  A value cell is a set: {} is NaN, {v} the rate v *)
(* in tenths of a percent (FRED publishes the rates with one decimal).     *)
(***************************************************************************)
EXTENDS Integers, Sequences, FiniteSets, TLC

VARIABLES
    script,          \* which dashboard this session runs: "v1" or "v2"
    phase,           \* "idle": a rerun is due; "rendered": the pass has ended
    cache,           \* st.cache_data store of get_series, by series id
    calls,           \* number of upstream retrievals issued, by series id
    upstream,        \* what the upstream answered to the retrieval, by series id
    states_selected, \* the multiselect's value in the last pass
    common,          \* [some, start, end]: common_start / common_end
    window,          \* [some, start, end]: start_date / end_date
    comparison_df,   \* comparison_df as the pass left it
    legend,          \* names of the traces of the line chart, in order
    download,        \* what to_csv wrote for the download button
    mapview,         \* [kind, year, data]: what the map section showed
    requested,       \* the series ids of the pass's get_series calls, in order
    filtered,        \* the pass got past the date filter of comparison_df
    crash,           \* "none", or the statement that raised
    bulk,            \* what pd.read_csv gave the one execution of load_county_data
    county_cache,    \* st.cache_data store of load_county_data
    county           \* what the county-level section of the last pass left

vars == << script, phase, cache, calls, upstream, states_selected, common, window,
           comparison_df, legend, download, mapview, requested, filtered, crash,
           bulk, county_cache, county >>

\* The variables of the state-level section.
stateVars == << phase, cache, calls, upstream, states_selected, common, window,
                comparison_df, legend, download, mapview, requested, filtered, crash >>

\* The variables of the county-level section.
countyVars == << bulk, county_cache, county >>

-----------------------------------------------------------------------------
(* Bounds *)

\* Observation dates are the days 1..MaxDate.
MaxDate == 3

Dates == 1 .. MaxDate

\* .dt.year of a day: two observation dates fall in each calendar year.
YearOf(d) == 2020 + ((d - 1) \div 2)

-----------------------------------------------------------------------------
(* RegionCatalog *)

\* The states of the model: two of the default selection.
States == {"Louisiana", "Texas"}

STATE_SERIES_IDS == [s \in States |-> IF s = "Louisiana" THEN "LAUR" ELSE "TXUR"]

SeriesIds == {"UNRATE"} \cup {STATE_SERIES_IDS[s] : s \in States}

-----------------------------------------------------------------------------
(* Sequences and frames *)

Range(s) == {s[i] : i \in 1 .. Len(s)}

SeqMax(s) == CHOOSE x \in Range(s) : \A y \in Range(s) : y <= x

SeqMin(s) == CHOOSE x \in Range(s) : \A y \in Range(s) : x <= y

SetMin(S) == CHOOSE x \in S : \A y \in S : x <= y

SetMax(S) == CHOOSE x \in S : \A y \in S : y <= x

\* pd.DataFrame()
EmptyFrame == [columns |-> << >>, rows |-> << >>]

\* df.empty
IsEmpty(df) == Len(df.columns) = 0 \/ Len(df.rows) = 0

\* c in df.columns; df[c] raises KeyError when this is false
HasColumn(df, c) == c \in Range(df.columns)

\* df[c] as a sequence of cells
Column(df, c) == [i \in 1 .. Len(df.rows) |-> df.rows[i][c]]

\* df.rename(columns={old: new}); a name that is absent is ignored
Rename(df, old, new) ==
    IF ~HasColumn(df, old) THEN df
    ELSE [columns |-> [i \in 1 .. Len(df.columns) |->
                          IF df.columns[i] = old THEN new ELSE df.columns[i]],
          rows    |-> [i \in 1 .. Len(df.rows) |->
                          [c \in (DOMAIN df.rows[i] \ {old}) \cup {new} |->
                              IF c = new THEN df.rows[i][old] ELSE df.rows[i][c]]]]

-----------------------------------------------------------------------------
(* Upstream (FRED) *)

\* The published rate of a series on a day, in tenths of a percent.
FredRate(id, d) ==
    IF id = "UNRATE" THEN 48 + 2 * d
    ELSE IF id = "LAUR" THEN 39 + d * d
    ELSE 60 - 3 * d

\* An ascending sequence of the days of a set.
RECURSIVE Ascending(_)
Ascending(S) ==
    IF S = {} THEN << >>
    ELSE LET m == CHOOSE x \in S : \A y \in S : x <= y
         IN  << m >> \o Ascending(S \ {m})

\* What fred.get_series answers: an exception, or a date-indexed series with
\* one observation per date.
FetchError == [ok |-> FALSE, data |-> << >>]

Observations(id, days) == [ok |-> TRUE, data |-> [i \in 1 .. Len(days) |-> << days[i], FredRate(id, days[i]) >>]]

\* FRED returns the observations in ascending date order; which days a series
\* covers is not fixed.
FredAnswers(id) ==
    {FetchError} \cup {Observations(id, Ascending(S)) : S \in (SUBSET Dates) \ {{}}}

\* Every order in which an upstream could list the observations.
Orderings(S) ==
    {q \in [1 .. Cardinality(S) -> S] : \A i, j \in 1 .. Cardinality(S) : q[i] = q[j] => i = j}

AnyOrderAnswers(id) ==
    {FetchError} \cup UNION {{Observations(id, q) : q \in Orderings(S)} : S \in (SUBSET Dates) \ {{}}}

-----------------------------------------------------------------------------
(* get_series *)

\* Faulty variant of get_series_body: sorts the rows by date.
get_series_body_sorted(answer) ==
    IF ~answer.ok THEN EmptyFrame
    ELSE LET days == Ascending({answer.data[i][1] : i \in 1 .. Len(answer.data)})
             at(d) == CHOOSE i \in 1 .. Len(answer.data) : answer.data[i][1] = d
         IN  [columns |-> << "Date", "Unemployment Rate" >>,
              rows    |-> [k \in 1 .. Len(days) |->
                              [c \in {"Date", "Unemployment Rate"} |->
                                  IF c = "Date" THEN days[k]
                                  ELSE {answer.data[at(days[k])][2]}]]]

\* The body of get_series: the try block and the except branch.
get_series_body(answer) ==
    IF ~answer.ok THEN EmptyFrame
    ELSE [columns |-> << "Date", "Unemployment Rate" >>,
          rows    |-> [i \in 1 .. Len(answer.data) |->
                          [c \in {"Date", "Unemployment Rate"} |->
                              IF c = "Date" THEN answer.data[i][1]
                              ELSE {answer.data[i][2]}]]]

NotCached == [present |-> FALSE, value |-> EmptyFrame]

\* @st.cache_data: what a call get_series(id) returns when the store is c and
\* the upstream would answer fred[id].
Returned(c, fred, id) ==
    IF c[id].present THEN c[id].value ELSE get_series_body(fred[id])

\* Faulty variant of Stored: the result of a call is not kept.
Stored_forgets(c, fred, id) == c

\* @st.cache_data: the store after a call get_series(id).
Stored(c, fred, id) ==
    IF c[id].present THEN c
    ELSE [c EXCEPT ![id] = [present |-> TRUE, value |-> get_series_body(fred[id])]]

\* The retrieval counters after a call get_series(id) made with store c.
Counted(c, n, id) ==
    IF c[id].present THEN n ELSE [n EXCEPT ![id] = @ + 1]

\* The answers on record after a call get_series(id) made with store c.
Answered(c, u, fred, id) ==
    IF c[id].present THEN u ELSE [u EXCEPT ![id] = fred[id]]

\* The store, the counters and the answers on record after the calls ids[1],
\* ids[2], ... in order.
RECURSIVE AfterCalls(_, _, _, _, _)
AfterCalls(c, n, u, fred, ids) ==
    IF Len(ids) = 0 THEN [cache |-> c, calls |-> n, upstream |-> u]
    ELSE AfterCalls(Stored(c, fred, Head(ids)), Counted(c, n, Head(ids)),
                    Answered(c, u, fred, Head(ids)), fred, Tail(ids))

-----------------------------------------------------------------------------
(* comparison_df *)

\* df[[c1, c2, ...]]: the listed columns, in the listed order.
SelectColumns(df, cols) ==
    [columns |-> cols,
     rows    |-> [i \in 1 .. Len(df.rows) |-> [c \in Range(cols) |-> df.rows[i][c]]]]

\* Faulty variant of MergeRows: how="inner", a left row without a match is
\* dropped.
RECURSIVE MergeRows_inner(_, _, _)
MergeRows_inner(lrows, rrows, col) ==
    IF Len(lrows) = 0 THEN << >>
    ELSE LET l == Head(lrows)
             m == SelectSeq(rrows, LAMBDA r : r["Date"] = l["Date"])
         IN  [k \in 1 .. Len(m) |-> l @@ (col :> m[k][col])]
                 \o MergeRows_inner(Tail(lrows), rrows, col)

\* The rows of pd.merge(left, right, on="Date", how="left"): every left row
\* once per right row of the same date, in left order, and once with NaN when
\* no right row has its date.
RECURSIVE MergeRows(_, _, _)
MergeRows(lrows, rrows, col) ==
    IF Len(lrows) = 0 THEN << >>
    ELSE LET l == Head(lrows)
             m == SelectSeq(rrows, LAMBDA r : r["Date"] = l["Date"])
             out == IF Len(m) = 0 THEN << l @@ (col :> {}) >>
                    ELSE [k \in 1 .. Len(m) |-> l @@ (col :> m[k][col])]
         IN  out \o MergeRows(Tail(lrows), rrows, col)

\* pd.merge(comparison_df, state_data, on="Date", how="left"), state_data
\* having the columns Date and col.
pd_merge_left(left, right, col) ==
    [columns |-> Append(left.columns, col),
     rows    |-> MergeRows(left.rows, right.rows, col)]

\* The loop over states_selected that joins each state's series.  Within one
\* pass every call of get_series(id) returns Returned(c, fred, id), c being
\* the store at the start of the pass: a miss stores what it returns.
RECURSIVE MergeLoop(_, _, _, _)
MergeLoop(df, c, fred, sel) ==
    IF Len(sel) = 0 THEN df
    ELSE LET state == Head(sel)
             state_data == Returned(c, fred, STATE_SERIES_IDS[state])
             joined == IF ~IsEmpty(state_data)
                       THEN pd_merge_left(df, Rename(state_data, "Unemployment Rate", state), state)
                       ELSE df
         IN  MergeLoop(joined, c, fred, Tail(sel))

\* Faulty variant of Mask: the end date is excluded.
Mask_exclusive(df, start, end) ==
    [df EXCEPT !.rows = SelectSeq(df.rows, LAMBDA r : r["Date"] >= start /\ r["Date"] < end)]

\* comparison_df.loc[mask] for the mask start <= Date <= end.
Mask(df, start, end) ==
    [df EXCEPT !.rows = SelectSeq(df.rows, LAMBDA r : r["Date"] >= start /\ r["Date"] <= end)]

-----------------------------------------------------------------------------
(* common_start / common_end *)

NoRange == [some |-> FALSE, start |-> 0, end |-> 0]

\* Faulty variant of CommonRange: the union of the ranges, min of the minima
\* and max of the maxima.
CommonRange_union(frames) ==
    [some  |-> TRUE,
     start |-> SeqMin([i \in 1 .. Len(frames) |-> SeqMin(Column(frames[i], "Date"))]),
     end   |-> SeqMax([i \in 1 .. Len(frames) |-> SeqMax(Column(frames[i], "Date"))])]

\* max(df.min() for df in dates), min(df.max() for df in dates) over the Date
\* columns of a non-empty list of non-empty frames.
CommonRange(frames) ==
    [some  |-> TRUE,
     start |-> SeqMax([i \in 1 .. Len(frames) |-> SeqMin(Column(frames[i], "Date"))]),
     end   |-> SeqMin([i \in 1 .. Len(frames) |-> SeqMax(Column(frames[i], "Date"))])]

\* The series of the selected states, in selection order.
StateFrames(c, fred, sel) ==
    [i \in 1 .. Len(sel) |-> Returned(c, fred, STATE_SERIES_IDS[sel[i]])]

\* v1: the range over the national series and every selected state's series.
CommonRange_v1(us_df, c, fred, sel) ==
    CommonRange(<< us_df >> \o StateFrames(c, fred, sel))

\* v2: the range over the selected states' non-empty series only.
CommonRange_v2(c, fred, sel) ==
    LET all_state_dates == SelectSeq(StateFrames(c, fred, sel), LAMBDA f : ~IsEmpty(f))
    IN  IF Len(all_state_dates) = 0 THEN NoRange ELSE CommonRange(all_state_dates)

-----------------------------------------------------------------------------
(* Line chart *)

\* The traces of the figure: United States, then one per selected state.
\* comparison_df[state] raises KeyError when the state has no column.
ChartRaises(df, sel) == \E i \in 1 .. Len(sel) : ~HasColumn(df, sel[i])

ChartLegend(df, sel) == << "United States" >> \o sel

-----------------------------------------------------------------------------
(* State map *)

\* round(x, 2) of the mean sum/n of rates given in tenths, in hundredths;
\* a tie goes to the even neighbour.
Round2(sum, n) ==
    LET q == (10 * sum) \div n
        r == (10 * sum) % n
    IN  IF 2 * r < n THEN q
        ELSE IF 2 * r > n THEN q + 1
        ELSE IF q % 2 = 0 THEN q ELSE q + 1

RECURSIVE SumCells(_)
SumCells(cells) ==
    IF Len(cells) = 0 THEN 0
    ELSE (CHOOSE v \in Head(cells) : TRUE) + SumCells(Tail(cells))

\* s.dropna()
DropNa(cells) == SelectSeq(cells, LAMBDA x : x # {})

\* Faulty variant of RoundedMean: the sum is divided by the number of rows,
\* NaN rows included.
RoundedMean_countsNaN(cells) == Round2(SumCells(DropNa(cells)), Len(cells))

\* round(s.mean(), 2) of a column with a non-null cell: the mean skips NaN.
RoundedMean(cells) == Round2(SumCells(DropNa(cells)), Len(DropNa(cells)))

\* v1: one entry per selected state with the state's cell on the table's
\* latest date.  An empty table raises IndexError, which the bare except
\* swallows; round() of NaN is NaN and is appended.
RECURSIVE latest_values(_, _)
latest_values(df, sel) ==
    IF Len(sel) = 0 THEN << >>
    ELSE LET state == Head(sel)
             at == IF Len(df.rows) = 0 \/ ~HasColumn(df, state) THEN << >>
                   ELSE SelectSeq(df.rows, LAMBDA r : r["Date"] = SeqMax(Column(df, "Date")))
             entry == IF Len(at) = 0 THEN << >>
                      ELSE << [State |-> state, Rate |-> {10 * v : v \in at[1][state]}] >>
         IN  entry \o latest_values(df, Tail(sel))

\* v2: comparison_df[comparison_df["Date"].dt.year == selected_year_state]
YearRows(df, year) ==
    [df EXCEPT !.rows = SelectSeq(df.rows, LAMBDA r : YearOf(r["Date"]) = year)]

\* v2: one entry per selected state that has a column with a non-null cell in
\* df_year, holding the rounded mean of the column.
RECURSIVE state_map_data(_, _)
state_map_data(df_year, sel) ==
    IF Len(sel) = 0 THEN << >>
    ELSE LET state == Head(sel)
             entry == IF HasColumn(df_year, state) /\ Len(DropNa(Column(df_year, state))) > 0
                      THEN << [State |-> state, Rate |-> {RoundedMean(Column(df_year, state))}] >>
                      ELSE << >>
         IN  entry \o state_map_data(df_year, Tail(sel))

NoMap == [kind |-> "none", year |-> 0, data |-> << >>]

-----------------------------------------------------------------------------
(* A render pass of the state-level section *)

\* df.to_csv(index=False): the header line and one line per row, the cells in
\* the order of the columns; the index is not written.
to_csv(df) ==
    [header |-> df.columns,
     lines  |-> [i \in 1 .. Len(df.rows) |->
                    [j \in 1 .. Len(df.columns) |-> df.rows[i][df.columns[j]]]]]

NoDownload == [some |-> FALSE, csv |-> to_csv(EmptyFrame)]

\* st.dataframe(comparison_df) shows comparison_df itself;
\* comparison_df.to_csv(index=False) is what the button offers.
TableAndDownload(df) == [some |-> TRUE, csv |-> to_csv(df)]

\* A pass that has executed nothing yet.
Blank ==
    [requested |-> << >>, common |-> NoRange, window |-> NoRange, asked |-> {},
     comparison_df |-> EmptyFrame, filtered |-> FALSE, legend |-> << >>,
     download |-> NoDownload, mapview |-> NoMap, crash |-> "none"]

SeriesOf(sel) == [i \in 1 .. Len(sel) |-> STATE_SERIES_IDS[sel[i]]]

\* The first position of a frame without a Date column, 0 if there is none.
FirstWithoutDate(frames) ==
    IF \A i \in 1 .. Len(frames) : HasColumn(frames[i], "Date") THEN 0
    ELSE CHOOSE i \in 1 .. Len(frames) :
             /\ ~HasColumn(frames[i], "Date")
             /\ \A j \in 1 .. i - 1 : HasColumn(frames[j], "Date")

\* v1, the map section: the latest values of the selected states, or the
\* placeholder when nothing is selected.
MapSection_v1(r, sel) ==
    IF Len(sel) = 0 THEN [r EXCEPT !.mapview = [NoMap EXCEPT !.kind = "info"]]
    ELSE LET data == latest_values(r.comparison_df, sel)
         IN  IF Len(data) = 0
             THEN [r EXCEPT !.crash = "v1:156 map_df[State] KeyError"]
             ELSE [r EXCEPT !.mapview = [kind |-> "map", year |-> 0, data |-> data]]

\* v1, lines 58-71: the national series, the join loop and the common range,
\* given the store c at the start of the pass, the upstream's answers fred and
\* the multiselect's value sel.  Nothing here depends on the date inputs.
Assemble_v1(c, fred, sel) ==
    LET us_df  == Rename(Returned(c, fred, "UNRATE"), "Unemployment Rate", "United States")
        bad    == FirstWithoutDate(StateFrames(c, fred, sel))
        r1     == [Blank EXCEPT !.requested = << "UNRATE" >>]
    IN
    IF ~(HasColumn(us_df, "Date") /\ HasColumn(us_df, "United States"))
    THEN [r1 EXCEPT !.crash = "v1:59 us_df[[Date, United States]] KeyError"]
    ELSE
    LET merged == MergeLoop(SelectColumns(us_df, << "Date", "United States" >>), c, fred, sel)
        r2     == [r1 EXCEPT !.requested = @ \o SeriesOf(sel), !.comparison_df = merged]
    IN
    IF bad > 0
    THEN [r2 EXCEPT !.requested = @ \o SubSeq(SeriesOf(sel), 1, bad),
                    !.crash = "v1:69 get_series(id)[Date] KeyError"]
    ELSE
    LET rng == CommonRange_v1(us_df, c, fred, sel)
        r3  == [r2 EXCEPT !.requested = @ \o SeriesOf(sel), !.common = rng]
    IN
    IF rng.start > rng.end
    THEN [r3 EXCEPT !.crash = "v1:73 date_input min_value > max_value"]
    ELSE [r3 EXCEPT !.asked = {"dates"}]

\* v1, lines 73-191: the date inputs, the filter, the chart, the table and the
\* map, after the assembly a.
View_v1(a, sel, start, end) ==
    IF a.crash # "none" THEN a
    ELSE
    LET table == Mask(a.comparison_df, start, end)
        r4    == [a EXCEPT !.window = [some |-> TRUE, start |-> start, end |-> end],
                           !.comparison_df = table, !.filtered = TRUE]
    IN
    IF ChartRaises(table, sel)
    THEN [r4 EXCEPT !.crash = "v1:95 comparison_df[state] KeyError"]
    ELSE MapSection_v1([r4 EXCEPT !.legend = ChartLegend(table, sel),
                                  !.download = TableAndDownload(table)], sel)

\* v1: the whole state-level section.
Pass_v1(c, fred, sel, start, end) ==
    View_v1(Assemble_v1(c, fred, sel), sel, start, end)

\* v2, the map section: the year slider and the year's means, the warning
\* when no state has a value, or the placeholder.
MapSection_v2(r, sel, year, sliderRaises) ==
    IF ~(Len(sel) > 0 /\ r.common.some)
    THEN [r EXCEPT !.mapview = [NoMap EXCEPT !.kind = "info"]]
    ELSE IF sliderRaises
    THEN [r EXCEPT !.asked = @ \cup {"year"},
                   !.mapview = [NoMap EXCEPT !.year = year],
                   !.crash = "v2:203 slider min_value = max_value"]
    ELSE LET data == state_map_data(YearRows(r.comparison_df, year), sel)
         IN  [r EXCEPT !.asked = @ \cup {"year"},
                       !.mapview = [kind |-> IF Len(data) > 0 THEN "map" ELSE "warning",
                                    year |-> year, data |-> data]]

\* The calls of the list comprehension of v2 line 118: the condition calls
\* get_series once, the element expression once more when the series is not
\* empty.
RECURSIVE RangeCalls(_, _, _)
RangeCalls(c, fred, sel) ==
    IF Len(sel) = 0 THEN << >>
    ELSE LET id == STATE_SERIES_IDS[Head(sel)]
         IN  (IF IsEmpty(Returned(c, fred, id)) THEN << id >> ELSE << id, id >>)
                 \o RangeCalls(c, fred, Tail(sel))

\* v2, lines 117-153 without the widgets: the range over the state series, the
\* national series and the join loop.  Nothing here depends on the date
\* inputs, which the script reads between the range and the national series.
Assemble_v2(c, fred, sel) ==
    LET rng == CommonRange_v2(c, fred, sel)
        r1  == [Blank EXCEPT !.requested = RangeCalls(c, fred, sel), !.common = rng]
    IN
    IF rng.some /\ rng.start > rng.end
    THEN [r1 EXCEPT !.crash = "v2:126 date_input min_value > max_value"]
    ELSE
    LET us_df == Rename(Returned(c, fred, "UNRATE"), "Unemployment Rate", "United States")
        r2    == [r1 EXCEPT !.requested = @ \o << "UNRATE" >>,
                            !.asked = IF rng.some THEN {"dates"} ELSE {}]
    IN
    IF ~(HasColumn(us_df, "Date") /\ HasColumn(us_df, "United States"))
    THEN [r2 EXCEPT !.crash = "v2:147 us_df[[Date, United States]] KeyError"]
    ELSE [r2 EXCEPT !.requested = @ \o SeriesOf(sel),
                    !.comparison_df =
                        MergeLoop(SelectColumns(us_df, << "Date", "United States" >>), c, fred, sel)]

\* v2, lines 125-129 and 155-269: the date inputs, the filter, the chart, the
\* table and the map, after the assembly a; year is the slider's value and
\* sliderRaises tells whether st.slider rejects a range of one year (the
\* installed Streamlit decides that).
View_v2(a, sel, start, end, year, sliderRaises) ==
    LET w  == IF a.common.some THEN [some |-> TRUE, start |-> start, end |-> end] ELSE NoRange
    IN
    IF a.crash # "none" THEN [a EXCEPT !.window = IF "dates" \in a.asked THEN w ELSE NoRange]
    ELSE
    LET table == IF w.some THEN Mask(a.comparison_df, start, end) ELSE a.comparison_df
        r3    == [a EXCEPT !.window = w, !.comparison_df = table, !.filtered = TRUE]
    IN
    IF ChartRaises(table, sel)
    THEN [r3 EXCEPT !.crash = "v2:172 comparison_df[state] KeyError"]
    ELSE MapSection_v2([r3 EXCEPT !.legend = ChartLegend(table, sel),
                                  !.download = TableAndDownload(table)],
                       sel, year, sliderRaises)

\* v2: the whole state-level section.
Pass_v2(c, fred, sel, start, end, year, sliderRaises) ==
    View_v2(Assemble_v2(c, fred, sel), sel, start, end, year, sliderRaises)

-----------------------------------------------------------------------------
(* Inputs of a pass *)

Scripts == {"v1", "v2"}

\* The values the multiselect can have: the states in the order chosen.
Selections ==
    {q \in UNION {[1 .. n -> States] : n \in 0 .. Cardinality(States)} :
        \A i, j \in 1 .. Len(q) : q[i] = q[j] => i = j}

\* get_series(id) is called for the national series and the selected states.
Needed(id, sel) == id = "UNRATE" \/ id \in Range(SeriesOf(sel))

\* What the upstream may answer in this pass; a series that is stored or not
\* asked for is never retrieved.
Answers(c, sel, id) ==
    IF c[id].present \/ ~Needed(id, sel) THEN {FetchError} ELSE FredAnswers(id)

\* The dates st.date_input lets the user have: common_start .. common_end.
\* The widgets are read only when the assembly a reached them.
DateChoices(a) ==
    IF "dates" \in a.asked THEN a.common.start .. a.common.end ELSE {0}

\* The slider of v2 is reached when the chart did not raise and the map
\* section's condition holds.
SliderReached(a, sel) ==
    /\ a.crash = "none"
    /\ ~ChartRaises(a.comparison_df, sel)
    /\ Len(sel) > 0
    /\ a.common.some

\* The years st.slider lets the user have.
YearChoices(a, sel) ==
    IF SliderReached(a, sel) THEN YearOf(a.common.start) .. YearOf(a.common.end) ELSE {0}

SliderChoices(a, sel) ==
    IF SliderReached(a, sel) /\ YearOf(a.common.start) = YearOf(a.common.end)
    THEN BOOLEAN ELSE {FALSE}

-----------------------------------------------------------------------------
(* The bulk parish file *)

\* A bulk file holds at most MaxRows data rows.
MaxRows == 2

\* Parish values as the file spells them.  A value is the sequence of its
\* pieces; the piece " " is a run of whitespace.
ParishValues ==
    {<< "St.", " ", "Tammany" >>, << "St.", "Tammany", " " >>, << "Acadia", " " >>}

\* Date and year values as the file spells them.
DateValues == {"2020-01-01", "2021-01-01", "n/a"}

YearValues == {"2021", "n/a"}

\* The header lines: any of Parish, Date and year, then the rate column under
\* its old or its new spelling.
BulkLayouts ==
    {SelectSeq(<< "Parish", "Date", "year" >>, LAMBDA c : c \in S) \o << rate >> :
        S \in SUBSET {"Parish", "Date", "year"},
        rate \in {"Unemployment rate", "Unemployment Rate"}}

BulkRow(cols, p, d, y) ==
    [c \in Range(cols) |->
        IF c = "Parish" THEN p
        ELSE IF c = "Date" THEN d
        ELSE IF c = "year" THEN y
        ELSE {57}]

BulkRows(cols) ==
    {BulkRow(cols, p, d, y) :
        p \in (IF "Parish" \in Range(cols) THEN ParishValues ELSE {<< >>}),
        d \in (IF "Date" \in Range(cols) THEN DateValues ELSE {"n/a"}),
        y \in (IF "year" \in Range(cols) THEN YearValues ELSE {"n/a"})}

BulkFiles ==
    UNION {{[columns |-> cols, rows |-> rows] :
                rows \in UNION {[1 .. n -> BulkRows(cols)] : n \in 0 .. MaxRows}} :
           cols \in BulkLayouts}

\* pd.read_csv("merged_national_county_1990_2025.csv"): it raises, or gives
\* the file's frame.
NotRead == [ok |-> FALSE, df |-> EmptyFrame]

read_csv == {NotRead} \cup {[ok |-> TRUE, df |-> f] : f \in BulkFiles}

-----------------------------------------------------------------------------
(* load_county_data *)

\* str.strip(): the whitespace at both ends goes, the whitespace inside stays.
RECURSIVE str_strip(_)
str_strip(s) ==
    IF Len(s) = 0 THEN s
    ELSE IF Head(s) = " " THEN str_strip(Tail(s))
    ELSE IF s[Len(s)] = " " THEN str_strip(SubSeq(s, 1, Len(s) - 1))
    ELSE s

\* The parishes of the model, out of the 64 of the table.
LA_PARISH_FIPS ==
    [k \in {<< "Acadia" >>, << "St.", " ", "Tammany" >>} |->
        IF k = << "Acadia" >> THEN "22001" ELSE "22103"]

\* Series.map(LA_PARISH_FIPS) on one value: NaN for a value that is no key.
map_fips(p) == IF p \in DOMAIN LA_PARISH_FIPS THEN {LA_PARISH_FIPS[p]} ELSE {}

\* pd.to_datetime(..., errors='coerce') on one value: NaT when it does not parse.
to_datetime(s) ==
    IF s = "2020-01-01" THEN {1}
    ELSE IF s = "2020-07-01" THEN {2}
    ELSE IF s = "2021-01-01" THEN {3}
    ELSE {}

\* .dt.year on one value: NaN for NaT.
dt_year(cell) == {YearOf(d) : d \in cell}

\* pd.to_numeric(..., errors='coerce') on one value.
to_numeric(s) ==
    IF s = "2020" THEN {2020}
    ELSE IF s = "2021" THEN {2021}
    ELSE {}

\* df[c] = cells: the column is replaced in place, or added at the end.
Assign(df, c, cells) ==
    [columns |-> IF HasColumn(df, c) THEN df.columns ELSE Append(df.columns, c),
     rows    |-> [i \in 1 .. Len(df.rows) |->
                     [k \in DOMAIN df.rows[i] \cup {c} |->
                         IF k = c THEN cells[i] ELSE df.rows[i][k]]]]

\* Faulty variant of dropna_fips: no row is dropped.
dropna_fips_keepsAll(df) == df

\* df.dropna(subset=["fips"]) keeps the rows whose fips is not NaN.
dropna_fips(df) ==
    [df EXCEPT !.rows = SelectSeq(df.rows, LAMBDA r : r["fips"] # {})]

\* Lines 304-305: the fips column and the drop of the unmapped rows.
MapParishes(df) ==
    dropna_fips(Assign(df, "fips", [i \in 1 .. Len(df.rows) |-> map_fips(df.rows[i]["Parish"])]))

\* Faulty variant of Failed: the failure is not reported.
Failed_quiet(msg) == [df |-> EmptyFrame, errors |-> << >>]

\* st.error(msg); return pd.DataFrame()
Failed(msg) == [df |-> EmptyFrame, errors |-> << msg >>]

Loaded(df) == [df |-> df, errors |-> << >>]

\* The body of load_county_data, given what pd.read_csv did.
load_county_data_body(read) ==
    IF ~read.ok THEN Failed("Failed to load county data")
    ELSE IF ~HasColumn(read.df, "Parish")
    THEN Failed("The county data must contain a 'Parish' column.")
    ELSE
    LET stripped == Assign(read.df, "Parish",
                           [i \in 1 .. Len(read.df.rows) |-> str_strip(read.df.rows[i]["Parish"])])
        df       == Rename(stripped, "Unemployment rate", "Unemployment Rate")
    IN
    IF HasColumn(df, "Date")
    THEN LET parsed == Assign(df, "Date",
                              [i \in 1 .. Len(df.rows) |-> to_datetime(df.rows[i]["Date"])])
         IN  IF \A i \in 1 .. Len(parsed.rows) : parsed.rows[i]["Date"] = {}
             THEN Failed("The 'Date' column exists but none of the dates could be parsed.")
             ELSE Loaded(MapParishes(Assign(parsed, "year",
                      [i \in 1 .. Len(parsed.rows) |-> dt_year(parsed.rows[i]["Date"])])))
    ELSE IF HasColumn(df, "year")
    THEN Loaded(MapParishes(Assign(df, "year",
             [i \in 1 .. Len(df.rows) |-> to_numeric(df.rows[i]["year"])])))
    ELSE Failed("The county data must contain either a 'Date' or 'year' column.")

\* st.cache_data: the body runs when nothing is stored, and what it returns,
\* the empty frame of a failed load included, is stored for the session.
NotLoaded == [present |-> FALSE, value |-> Loaded(EmptyFrame)]

load_county_data(store, read) ==
    IF store.present THEN store.value ELSE load_county_data_body(read)

-----------------------------------------------------------------------------
(* The county-level section *)

\* The values of a column that are not missing.
Known(df, c) == UNION {df.rows[i][c] : i \in 1 .. Len(df.rows)}

ParishesOf(df) == {df.rows[i]["Parish"] : i \in 1 .. Len(df.rows)}

NoSlider == [some |-> FALSE, min |-> 0, max |-> 0, year |-> 0]

NoTable == [some |-> FALSE, df |-> EmptyFrame]

NoCsv == [some |-> FALSE, csv |-> to_csv(EmptyFrame)]

NoChart == [some |-> FALSE, traces |-> {}]

NoCountyMap == [some |-> FALSE, year |-> 0, df |-> EmptyFrame]

\* A county-level section that has executed nothing yet.
NoCounty ==
    [ran |-> FALSE, messages |-> << >>, county_df |-> EmptyFrame,
     selected_parishes |-> {}, window |-> NoRange, slider |-> NoSlider,
     chart |-> NoChart, table |-> NoTable, csv |-> NoCsv, map |-> NoCountyMap,
     crash |-> "none"]

\* county_df = load_county_data(): the loader's messages are on the page.
CountyStart(loaded) ==
    [NoCounty EXCEPT !.ran = TRUE, !.messages = loaded.errors, !.county_df = loaded.df]

\* county_df[county_df["year"] == year]
YearFilter(df, year) ==
    [df EXCEPT !.rows = SelectSeq(df.rows, LAMBDA r : r["year"] = {year})]

\* v1, lines 310-359.  year is the slider's value and sliderRaises tells
\* whether st.slider rejects a range of one year.
CountySection_v1(loaded, year, sliderRaises) ==
    LET r0        == CountyStart(loaded)
        county_df == loaded.df
        years     == Known(county_df, "year")
    IN
    IF IsEmpty(county_df)
    THEN [r0 EXCEPT !.messages = Append(@, "County-level data could not be loaded.")]
    ELSE IF years = {}
    THEN [r0 EXCEPT !.crash = "v1:313 int(NaN) ValueError"]
    ELSE
    LET r1 == [r0 EXCEPT !.slider = [some |-> TRUE, min |-> SetMin(years),
                                     max |-> SetMax(years), year |-> year]]
        filtered_county_df == YearFilter(county_df, year)
    IN
    IF sliderRaises
    THEN [r1 EXCEPT !.crash = "v1:316 slider min_value = max_value"]
    ELSE IF IsEmpty(filtered_county_df)
    THEN [r1 EXCEPT !.messages = Append(@, "No parish data available for the selected year.")]
    ELSE [r1 EXCEPT !.map = [some |-> TRUE, year |-> year, df |-> filtered_county_df]]

\* v2: the metric of the selectbox; the bulk files of the model carry the
\* rate alone, so it stays at the first option.
selected_metric == "Unemployment Rate"

\* v2: the part of the multiselect's default list that the model's table holds.
DefaultParishes == {<< "St.", " ", "Tammany" >>}

\* county_df[Parish.isin(selected) & Date >= start & Date <= end]; a missing
\* Date compares false.
LineFilter(df, selected, start, end) ==
    [df EXCEPT !.rows = SelectSeq(df.rows, LAMBDA r :
        /\ r["Parish"] \in selected
        /\ \E d \in r["Date"] : start <= d /\ d <= end)]

\* county_df[(year == selected_year) & Parish.isin(selected)]
MapFilter(df, selected, year) ==
    [df EXCEPT !.rows = SelectSeq(df.rows, LAMBDA r :
        r["year"] = {year} /\ r["Parish"] \in selected)]

\* v2, lines 335-466.  picked is the multiselect's value, start and end the
\* date inputs, year the slider's value.
CountySection_v2(loaded, picked, start, end, year, sliderRaises) ==
    LET r0        == CountyStart(loaded)
        county_df == loaded.df
    IN
    IF IsEmpty(county_df)
    THEN [r0 EXCEPT !.messages = Append(@, "County-level data could not be loaded.")]
    ELSE IF ~(DefaultParishes \subseteq ParishesOf(county_df))
    THEN [r0 EXCEPT !.crash = "v2:353 multiselect default not in options"]
    ELSE
    LET r1 == [r0 EXCEPT !.selected_parishes = picked] IN
    IF ~HasColumn(county_df, "Date")
    THEN [r1 EXCEPT !.crash = "v2:365 county_df[Date] KeyError"]
    ELSE IF Known(county_df, "Date") = {}
    THEN [r1 EXCEPT !.crash = "v2:365 county_df[Date].min() is NaT"]
    ELSE
    LET filtered_line_df == LineFilter(county_df, picked, start, end)
        r2 == [r1 EXCEPT !.window = [some |-> TRUE, start |-> start, end |-> end]]
        r3 == IF IsEmpty(filtered_line_df)
              THEN [r2 EXCEPT !.messages = Append(@, "No data available for selected filters.")]
              ELSE [r2 EXCEPT
                       !.chart = [some |-> TRUE, traces |-> picked],
                       !.table = [some |-> TRUE,
                                  df |-> SelectColumns(filtered_line_df,
                                             << "Date", "Parish", selected_metric >>)],
                       !.csv   = [some |-> TRUE, csv |-> to_csv(filtered_line_df)]]
        years == Known(county_df, "year")
        r4 == [r3 EXCEPT !.slider = [some |-> TRUE, min |-> SetMin(years),
                                     max |-> SetMax(years), year |-> year]]
        filtered_map_df == MapFilter(county_df, picked, year)
    IN
    IF sliderRaises
    THEN [r4 EXCEPT !.crash = "v2:419 slider min_value = max_value"]
    ELSE IF IsEmpty(filtered_map_df)
    THEN [r4 EXCEPT !.messages = Append(@, "No parish data available for the selected year.")]
    ELSE [r4 EXCEPT !.map = [some |-> TRUE, year |-> year, df |-> filtered_map_df]]

\* The widgets' values a pass can have, given the dataset.
CountyYearChoices(df) ==
    IF IsEmpty(df) \/ Known(df, "year") = {} THEN {0}
    ELSE SetMin(Known(df, "year")) .. SetMax(Known(df, "year"))

CountySliderChoices(df) ==
    IF ~IsEmpty(df) /\ Cardinality(Known(df, "year")) = 1 THEN BOOLEAN ELSE {FALSE}

ParishChoices(df) == IF IsEmpty(df) THEN {{}} ELSE SUBSET ParishesOf(df)

CountyDateChoices(df) ==
    IF IsEmpty(df) \/ ~HasColumn(df, "Date") \/ Known(df, "Date") = {} THEN {0}
    ELSE SetMin(Known(df, "Date")) .. SetMax(Known(df, "Date"))

-----------------------------------------------------------------------------
(* Actions *)

Init ==
    /\ script \in Scripts
    /\ phase = "idle"
    /\ cache = [id \in SeriesIds |-> NotCached]
    /\ calls = [id \in SeriesIds |-> 0]
    /\ upstream = [id \in SeriesIds |-> FetchError]
    /\ states_selected = << >>
    /\ common = NoRange
    /\ window = NoRange
    /\ comparison_df = EmptyFrame
    /\ legend = << >>
    /\ download = NoDownload
    /\ mapview = NoMap
    /\ requested = << >>
    /\ filtered = FALSE
    /\ crash = "none"
    /\ bulk = NotRead
    /\ county_cache = NotLoaded
    /\ county = NoCounty

\* The pass r ends: its outputs are on the page and its calls are in the store.
Finish(r, fred, sel) ==
    \E after \in {AfterCalls(cache, calls, upstream, fred, r.requested)} :
        /\ phase' = "rendered"
        /\ cache' = after.cache
        /\ calls' = after.calls
        /\ upstream' = after.upstream
        /\ states_selected' = sel
        /\ common' = r.common
        /\ window' = r.window
        /\ comparison_df' = r.comparison_df
        /\ legend' = r.legend
        /\ download' = r.download
        /\ mapview' = r.mapview
        /\ requested' = r.requested
        /\ filtered' = r.filtered
        /\ crash' = r.crash
        /\ UNCHANGED script
        /\ UNCHANGED countyVars

\* One run of economics_dashboard.py from top to bottom.
RenderV1 ==
    /\ script = "v1"
    /\ phase = "idle"
    /\ \E sel \in Selections :
       \E fred \in [UNRATE : Answers(cache, sel, "UNRATE"),
                    LAUR : Answers(cache, sel, "LAUR"),
                    TXUR : Answers(cache, sel, "TXUR")] :
          \E a \in {Assemble_v1(cache, fred, sel)} :
              \E start \in DateChoices(a), end \in DateChoices(a) :
              \E r \in {View_v1(a, sel, start, end)} :
                  Finish(r, fred, sel)

\* One run of economics_dashboard_3cols.py from top to bottom.
RenderV2 ==
    /\ script = "v2"
    /\ phase = "idle"
    /\ \E sel \in Selections :
       \E fred \in [UNRATE : Answers(cache, sel, "UNRATE"),
                    LAUR : Answers(cache, sel, "LAUR"),
                    TXUR : Answers(cache, sel, "TXUR")] :
          \E a \in {Assemble_v2(cache, fred, sel)} :
              \E start \in DateChoices(a), end \in DateChoices(a) :
              \E year \in YearChoices(a, sel), sliderRaises \in SliderChoices(a, sel) :
              \E r \in {View_v2(a, sel, start, end, year, sliderRaises)} :
                  Finish(r, fred, sel)

\* The user changes a widget: Streamlit clears the page and reruns the script.
Rerun ==
    /\ phase = "rendered"
    /\ phase' = "idle"
    /\ states_selected' = << >>
    /\ common' = NoRange
    /\ window' = NoRange
    /\ comparison_df' = EmptyFrame
    /\ legend' = << >>
    /\ download' = NoDownload
    /\ mapview' = NoMap
    /\ requested' = << >>
    /\ filtered' = FALSE
    /\ crash' = "none"
    /\ UNCHANGED << script, cache, calls, upstream >>
    /\ UNCHANGED countyVars

Next == RenderV1 \/ RenderV2 \/ Rerun

Spec == Init /\ [][Next]_vars

-----------------------------------------------------------------------------
(* get_series on its own, over an upstream that lists the observations in any
   order *)

\* One call get_series(id) outside a render pass.
CallGetSeries ==
    \E id \in SeriesIds :
    \E answer \in (IF cache[id].present THEN {FetchError} ELSE AnyOrderAnswers(id)) :
    \E after \in {AfterCalls(cache, calls, upstream, [i \in SeriesIds |-> answer], << id >>)} :
        /\ cache' = after.cache
        /\ calls' = after.calls
        /\ upstream' = after.upstream
        /\ UNCHANGED << script, phase, states_selected, common, window, comparison_df,
                        legend, download, mapview, requested, filtered, crash >>
        /\ UNCHANGED countyVars

NextFetch == CallGetSeries

SpecFetch == Init /\ [][NextFetch]_vars

-----------------------------------------------------------------------------
(* The county-level section of a run, after a state-level section that has
   ended without raising *)

\* The section r ends; the loader's result is in the store.
FinishCounty(r, read, loaded) ==
    /\ county' = r
    /\ county_cache' = [present |-> TRUE, value |-> loaded]
    /\ bulk' = IF county_cache.present THEN bulk ELSE read
    /\ UNCHANGED script
    /\ UNCHANGED stateVars

\* What pd.read_csv may give in this pass; a stored result is not read again.
Reads == IF county_cache.present THEN {bulk} ELSE read_csv

CountyV1 ==
    /\ script = "v1"
    /\ ~county.ran
    /\ \E read \in Reads :
       \E loaded \in {load_county_data(county_cache, read)} :
       \E year \in CountyYearChoices(loaded.df), sliderRaises \in CountySliderChoices(loaded.df) :
       \E r \in {CountySection_v1(loaded, year, sliderRaises)} :
           FinishCounty(r, read, loaded)

CountyV2 ==
    /\ script = "v2"
    /\ ~county.ran
    /\ \E read \in Reads :
       \E loaded \in {load_county_data(county_cache, read)} :
       \E picked \in ParishChoices(loaded.df) :
       \E start \in CountyDateChoices(loaded.df), end \in CountyDateChoices(loaded.df) :
       \E year \in CountyYearChoices(loaded.df), sliderRaises \in CountySliderChoices(loaded.df) :
       \E r \in {CountySection_v2(loaded, picked, start, end, year, sliderRaises)} :
           FinishCounty(r, read, loaded)

\* The user changes a widget: Streamlit clears the page and reruns the script.
CountyRerun ==
    /\ county.ran
    /\ county' = NoCounty
    /\ UNCHANGED << script, bulk, county_cache >>
    /\ UNCHANGED stateVars

NextCounty == CountyV1 \/ CountyV2 \/ CountyRerun

SpecCounty == Init /\ [][NextCounty]_vars

-----------------------------------------------------------------------------
(* What the properties read *)

Rendered == phase = "rendered"

\* The national series and a state's series as get_series returned them.
NationalSeries == cache["UNRATE"].value

SeriesOfState(state) == cache[STATE_SERIES_IDS[state]].value

DatesOf(df) == {df.rows[i]["Date"] : i \in 1 .. Len(df.rows)}

SelectedStates == Range(states_selected)

\* The selected states whose series holds observations.
ObservedStates == {st \in SelectedStates : Len(SeriesOfState(st).rows) > 0}

\* The intersection of the date ranges of a set of non-empty series.
LatestStart(F) == SetMax({SetMin(DatesOf(f)) : f \in F})

EarliestEnd(F) == SetMin({SetMax(DatesOf(f)) : f \in F})

StateSeriesSet == {SeriesOfState(st) : st \in ObservedStates}

ContributingSet == {NationalSeries} \cup StateSeriesSet

\* The date inputs were left at their defaults (or were never shown).
AtDefaults == ~window.some \/ (window.start = common.start /\ window.end = common.end)

\* The national dates inside [lo, hi], in the national series' order.
NationalDatesWithin(lo, hi) ==
    SelectSeq(Column(NationalSeries, "Date"), LAMBDA d : lo <= d /\ d <= hi)

\* A state's observation on a day: {} when its series lacks the day.
ObservationOn(state, d) ==
    UNION {SeriesOfState(state).rows[i]["Unemployment Rate"] :
              i \in {j \in 1 .. Len(SeriesOfState(state).rows) : SeriesOfState(state).rows[j]["Date"] = d}}

\* A state's raw observations of a calendar year.
ObservationsIn(state, year) ==
    UNION {ObservationOn(state, d) : d \in {x \in Dates : YearOf(x) = year}}

HasNaN(df) ==
    \E i \in 1 .. Len(df.rows) : \E c \in Range(df.columns) \ {"Date"} : df.rows[i][c] = {}

-----------------------------------------------------------------------------
(* C1 *)

\* C1: whenever a pass with a non-empty selection has built and filtered the
\* comparison table, the table's Date column is the national series' dates
\* inside [start_date, end_date] (all of them when v2 has no window), each
\* once and in the national series' order.
C1_DateBackbone ==
    (Rendered /\ filtered /\ Len(states_selected) > 0) =>
        Column(comparison_df, "Date") =
            IF window.some THEN NationalDatesWithin(window.start, window.end)
            ELSE Column(NationalSeries, "Date")

\* Two states are joined, one of them lacks a national date that is in the
\* table, and the window cuts a national date off.
C1_Witness ==
    /\ Rendered /\ filtered /\ crash = "none"
    /\ Len(states_selected) = 2
    /\ window.some
    /\ Len(comparison_df.rows) >= 2
    /\ Len(comparison_df.rows) < Len(NationalSeries.rows)
    /\ HasNaN(comparison_df)

-----------------------------------------------------------------------------
(* C2 *)

\* C2: every render pass runs to its end: no statement of the state-level
\* section raises an uncaught error, whatever the selection, the dates and
\* the fetch outcomes are.
C2_NoUncaughtError == Rendered => crash = "none"

-----------------------------------------------------------------------------
(* C3 *)

\* C3: a selected state whose retrieval failed keeps a column in the finished
\* comparison table, null on every row, and a trace in the chart legend.
C3_FailedStateKeepsNullColumn ==
    Rendered =>
        \A st \in SelectedStates :
            (cache[STATE_SERIES_IDS[st]].present /\ ~upstream[STATE_SERIES_IDS[st]].ok
             /\ cache["UNRATE"].present /\ upstream["UNRATE"].ok) =>
                /\ filtered
                /\ HasColumn(comparison_df, st)
                /\ \A i \in 1 .. Len(comparison_df.rows) : comparison_df.rows[i][st] = {}
                /\ st \in Range(legend)

-----------------------------------------------------------------------------
(* C4 *)

\* C4 as stated: with the date inputs at their defaults the comparison table
\* has one row per date of the national series, a state's cell being null
\* exactly on the national dates its series lacks.
C4_OneRowPerNationalDate ==
    (Rendered /\ filtered /\ AtDefaults /\ Len(states_selected) > 0) =>
        /\ Column(comparison_df, "Date") = Column(NationalSeries, "Date")
        /\ \A i \in 1 .. Len(comparison_df.rows) :
           \A st \in SelectedStates :
               HasColumn(comparison_df, st) =>
                   comparison_df.rows[i][st] = ObservationOn(st, comparison_df.rows[i]["Date"])

\* C4 as amended: with the date inputs at their defaults the comparison table
\* has one row per national date inside [common_start, common_end] (every
\* national date when v2 has no range), and a joined state's cell is its
\* observation on the row's date, null when its series lacks the date.
C4_OneRowPerNationalDateInCommonRange ==
    (Rendered /\ filtered /\ AtDefaults /\ Len(states_selected) > 0) =>
        /\ Column(comparison_df, "Date") =
               IF common.some THEN NationalDatesWithin(common.start, common.end)
               ELSE Column(NationalSeries, "Date")
        /\ \A i \in 1 .. Len(comparison_df.rows) :
           \A st \in SelectedStates :
               HasColumn(comparison_df, st) =>
                   comparison_df.rows[i][st] = ObservationOn(st, comparison_df.rows[i]["Date"])

\* The default window drops a national date and a state is null on a row
\* that stays.
C4_Witness ==
    /\ Rendered /\ filtered /\ crash = "none" /\ AtDefaults /\ window.some
    /\ Len(states_selected) > 0
    /\ Len(comparison_df.rows) < Len(NationalSeries.rows)
    /\ HasNaN(comparison_df)

\* The scenario of the claim: national = [(d1, 5.0), (d2, 5.2)], Louisiana =
\* [(d1, 4.0)], defaults: v1 shows the single row of d1.
C4_Scenario ==
    /\ Rendered /\ filtered /\ AtDefaults /\ script = "v1"
    /\ states_selected = << "Louisiana" >>
    /\ upstream["UNRATE"] = [ok |-> TRUE, data |-> << << 1, 50 >>, << 2, 52 >> >>]
    /\ upstream["LAUR"] = [ok |-> TRUE, data |-> << << 1, 40 >> >>]
    /\ Len(comparison_df.rows) = 1

-----------------------------------------------------------------------------
(* C5 *)

\* C5 as stated: the dates that filter the table lie within the intersection
\* of the date ranges of the national series and of every selected state's
\* series, and so does every row's date.
C5_WindowWithinCommonRange ==
    (Rendered /\ filtered /\ window.some /\ Len(states_selected) > 0) =>
        /\ LatestStart(ContributingSet) <= window.start
        /\ window.start <= EarliestEnd(ContributingSet)
        /\ LatestStart(ContributingSet) <= window.end
        /\ window.end <= EarliestEnd(ContributingSet)
        /\ \A d \in DatesOf(comparison_df) :
               LatestStart(ContributingSet) <= d /\ d <= EarliestEnd(ContributingSet)

\* C5 as amended: in v1 the two dates lie within the intersection of the
\* ranges of the national series and the selected states' series; in v2 they
\* lie within the intersection of the ranges of the selected states' non-empty
\* series, the national series not being consulted; in both every row's date
\* lies within the intersection over the national and those state series.
C5_WindowWithinScriptRange ==
    (Rendered /\ filtered /\ window.some /\ Len(states_selected) > 0) =>
        LET F == IF script = "v1" THEN ContributingSet ELSE StateSeriesSet
        IN  /\ LatestStart(F) <= window.start
            /\ window.start <= EarliestEnd(F)
            /\ LatestStart(F) <= window.end
            /\ window.end <= EarliestEnd(F)
            /\ \A d \in DatesOf(comparison_df) :
                   LatestStart(ContributingSet) <= d /\ d <= EarliestEnd(ContributingSet)

\* v2 filters with a start date that lies before the national series begins,
\* two states being joined and rows being shown.
C5_Witness ==
    /\ Rendered /\ filtered /\ crash = "none" /\ window.some
    /\ script = "v2"
    /\ Len(states_selected) = 2
    /\ window.start < SetMin(DatesOf(NationalSeries))
    /\ Len(comparison_df.rows) > 0

-----------------------------------------------------------------------------
(* C6 *)

\* The rounded mean of all of a state's observations of a calendar year.
YearMean(state, year) ==
    RoundedMean(Column(YearRows(SeriesOfState(state), year), "Unemployment Rate"))

\* C6: the value the v2 map section has for a selected state and the chosen
\* year is the mean of all of that state's observations of that year,
\* whatever start and end dates filter the time series.
C6_YearMeanOfAllObservations ==
    (Rendered /\ script = "v2" /\ mapview.kind \in {"map", "warning"}) =>
        \A st \in SelectedStates :
            ObservationsIn(st, mapview.year) # {} =>
                \E i \in 1 .. Len(mapview.data) :
                    /\ mapview.data[i].State = st
                    /\ mapview.data[i].Rate = {YearMean(st, mapview.year)}

\* The failing input: Louisiana = [(d1, 4.0), (d2, 4.3)], both of 2020, the
\* national series on the same days, start = end = d2: the map holds 4.30
\* for 2020, the mean of the year being 4.15.
C6_Scenario ==
    /\ Rendered /\ script = "v2" /\ crash = "none"
    /\ states_selected = << "Louisiana" >>
    /\ upstream["UNRATE"] = [ok |-> TRUE, data |-> << << 1, 50 >>, << 2, 52 >> >>]
    /\ upstream["LAUR"] = [ok |-> TRUE, data |-> << << 1, 40 >>, << 2, 43 >> >>]
    /\ window = [some |-> TRUE, start |-> 2, end |-> 2]
    /\ mapview = [kind |-> "map", year |-> 2020,
                  data |-> << [State |-> "Louisiana", Rate |-> {430}] >>]
    /\ YearMean("Louisiana", 2020) = 415

-----------------------------------------------------------------------------
(* C7 *)

\* C7: the states handed to the choropleth are selected states, and each of
\* them comes with a value: a state without one is left out.
C7_MapOnlySelectedWithValue ==
    (Rendered /\ mapview.kind = "map") =>
        \A i \in 1 .. Len(mapview.data) :
            /\ mapview.data[i].State \in SelectedStates
            /\ mapview.data[i].Rate # {}

\* The failing input: v1, national series on d1, d2, d3, Louisiana on d1 and
\* d3, end date d2: Louisiana is handed to the map with NaN.
C7_Scenario ==
    /\ Rendered /\ script = "v1" /\ crash = "none"
    /\ states_selected = << "Louisiana" >>
    /\ DatesOf(NationalSeries) = {1, 2, 3}
    /\ DatesOf(SeriesOfState("Louisiana")) = {1, 3}
    /\ window = [some |-> TRUE, start |-> 1, end |-> 2]
    /\ mapview = [kind |-> "map", year |-> 0,
                  data |-> << [State |-> "Louisiana", Rate |-> {}] >>]

-----------------------------------------------------------------------------
(* C8 *)

\* C8: every rate of the v2 year projection lies between the minimum and the
\* maximum of the state's raw observations of the projected year (rates in
\* hundredths, observations in tenths of a percent).
C8_RateWithinYearBounds ==
    (Rendered /\ script = "v2" /\ mapview.kind = "map") =>
        \A i \in 1 .. Len(mapview.data) :
            LET obs == ObservationsIn(mapview.data[i].State, mapview.year)
            IN  /\ obs # {}
                /\ mapview.data[i].Rate # {}
                /\ \A r \in mapview.data[i].Rate :
                       10 * SetMin(obs) <= r /\ r <= 10 * SetMax(obs)

\* A projected rate strictly between the year's minimum and maximum, next to
\* a second projected state.
C8_Witness ==
    /\ Rendered /\ script = "v2" /\ mapview.kind = "map"
    /\ Len(mapview.data) = 2
    /\ \E i \in 1 .. Len(mapview.data) :
           LET obs == ObservationsIn(mapview.data[i].State, mapview.year)
           IN  \E r \in mapview.data[i].Rate :
                   10 * SetMin(obs) < r /\ r < 10 * SetMax(obs)

-----------------------------------------------------------------------------
(* C9 *)

\* C9: no step issues a second upstream retrieval for a series id, and once
\* get_series has a series for an id the stored series never changes, so
\* every later call returns what the first call returned.
C9_RetrievedAtMostOnce ==
    [][\A id \in SeriesIds :
           /\ calls'[id] <= 1
           /\ (calls'[id] = 1) = cache'[id].present
           /\ cache[id].present => (cache'[id] = cache[id] /\ calls'[id] = calls[id])]_vars

\* A pass that called get_series for one id more than once, the id having
\* been retrieved once.
C9_Witness ==
    /\ Rendered
    /\ \E id \in SeriesIds :
           /\ calls[id] = 1
           /\ Cardinality({i \in 1 .. Len(requested) : requested[i] = id}) >= 2

-----------------------------------------------------------------------------
(* C10 *)

IsAscending(dates) == \A i, j \in 1 .. Len(dates) : i < j => dates[i] < dates[j]

-----------------------------------------------------------------------------
(* What the county-level properties read *)

\* load_county_data has returned.
CountyLoaded == county_cache.present

\* The dataset load_county_data returned, and the messages it reported.
county_df == county_cache.value.df

LoadErrors == county_cache.value.errors

\* The bulk file as pd.read_csv gave it.
BulkHas(c) == bulk.ok /\ HasColumn(bulk.df, c)

BulkRowIds == 1 .. Len(bulk.df.rows)

\* A Date value of the file that does not parse.
Unparsable(s) == to_datetime(s) = {}

\* The fatal load conditions: the file is unreadable, has no Parish column,
\* has neither Date nor year, or has a Date column without a parsable value.
FatalLoad ==
    \/ ~bulk.ok
    \/ ~BulkHas("Parish")
    \/ ~BulkHas("Date") /\ ~BulkHas("year")
    \/ BulkHas("Date") /\ \A i \in BulkRowIds : Unparsable(bulk.df.rows[i]["Date"])

\* The whitespace-trimmed Parish value of a row of the file is a key.
Mapped(i) == str_strip(bulk.df.rows[i]["Parish"]) \in DOMAIN LA_PARISH_FIPS

\* The rows of the file that map to a FIPS code, in the file's order.
MappedRowIds == SelectSeq([i \in BulkRowIds |-> i], Mapped)

-----------------------------------------------------------------------------
(* C11 *)

\* C11: every row of the dataset returned by load_county_data has a FIPS
\* code; when the load is not fatal, the rows of the dataset are, in the
\* file's order, exactly the rows of the file whose whitespace-trimmed Parish
\* value is a key of LA_PARISH_FIPS, each with its key's code, and the rows
\* without a mapping are dropped without any message.
C11_KeptExactlyWhenMapped ==
    CountyLoaded =>
        /\ \A i \in 1 .. Len(county_df.rows) : county_df.rows[i]["fips"] # {}
        /\ ~FatalLoad =>
            /\ LoadErrors = << >>
            /\ Len(county_df.rows) = Len(MappedRowIds)
            /\ \A k \in 1 .. Len(MappedRowIds) :
                  /\ county_df.rows[k]["Parish"] = str_strip(bulk.df.rows[MappedRowIds[k]]["Parish"])
                  /\ county_df.rows[k]["fips"] = {LA_PARISH_FIPS[county_df.rows[k]["Parish"]]}

\* A load that kept a row whose name needed trimming and dropped a row whose
\* name has no mapping.
C11_Witness ==
    /\ CountyLoaded
    /\ ~FatalLoad
    /\ Len(county_df.rows) = 1
    /\ \E i, j \in BulkRowIds :
          /\ bulk.df.rows[i]["Parish"] = << "Acadia", " " >>
          /\ ~Mapped(j)

-----------------------------------------------------------------------------
(* C12 *)

\* The file has a Date column in which some but not all values are unparsable.
SomeDatesUnparsable ==
    /\ BulkHas("Parish")
    /\ BulkHas("Date")
    /\ \E i \in BulkRowIds : Unparsable(bulk.df.rows[i]["Date"])
    /\ \E i \in BulkRowIds : ~Unparsable(bulk.df.rows[i]["Date"])

\* The years of the parsable dates of the rows that survive the parish mapping.
SurvivingYears ==
    UNION {dt_year(to_datetime(bulk.df.rows[i]["Date"])) : i \in {j \in BulkRowIds : Mapped(j)}}

\* C12: when some but not all Date values of the file are unparsable, no
\* row of the dataset returned by load_county_data has a missing Date or a
\* missing year, and the years of the dataset are the years of the parsable
\* dates of the rows that survive the parish mapping.
C12_UnparsableDatesDropped ==
    (CountyLoaded /\ SomeDatesUnparsable) =>
        /\ \A i \in 1 .. Len(county_df.rows) :
              county_df.rows[i]["Date"] # {} /\ county_df.rows[i]["year"] # {}
        /\ {county_df.rows[i]["year"] : i \in 1 .. Len(county_df.rows)}
               = {{y} : y \in SurvivingYears}

\* The failing input of C12: a mapped row with an unparsable date next to a
\* row with a parsable one; the dataset keeps the first with a missing Date.
C12_Scenario ==
    /\ CountyLoaded
    /\ SomeDatesUnparsable
    /\ \E i \in 1 .. Len(county_df.rows) : county_df.rows[i]["Date"] = {}

-----------------------------------------------------------------------------
(* C13 *)

\* The rows of the file whose Parish value is "St.Tammany " or "St. Tammany".
TammanyRowIds ==
    {i \in BulkRowIds :
        bulk.df.rows[i]["Parish"] \in {<< "St.", "Tammany", " " >>, << "St.", " ", "Tammany" >>}}

\* C13: a row of the file whose Parish value is "St.Tammany " is kept by
\* load_county_data with the FIPS code 22103, as a row whose Parish value is
\* "St. Tammany" is: a load that is not fatal returns one row with the code
\* 22103 for each such row of the file.
C13_TammanyVariantKept ==
    (CountyLoaded /\ ~FatalLoad) =>
        Cardinality({k \in 1 .. Len(county_df.rows) : county_df.rows[k]["fips"] = {"22103"}})
            = Cardinality(TammanyRowIds)

\* The failing input of C13: the file holds a "St.Tammany " row and the
\* dataset holds no row with the code 22103.
C13_Scenario ==
    /\ CountyLoaded
    /\ ~FatalLoad
    /\ \E i \in BulkRowIds : bulk.df.rows[i]["Parish"] = << "St.", "Tammany", " " >>
    /\ \A k \in 1 .. Len(county_df.rows) : county_df.rows[k]["fips"] # {"22103"}

-----------------------------------------------------------------------------
(* C14 *)

\* The county-level section built a slider, a chart, a table or a map.
CountyBuiltViews ==
    \/ county.slider.some
    \/ county.chart.some
    \/ county.table.some
    \/ county.csv.some
    \/ county.map.some

\* C14: every fatal load condition (file unreadable, no Parish column,
\* neither Date nor year, a Date column without a parsable value) makes
\* load_county_data report one failure and return the empty dataset, and with
\* an empty dataset the county-level section raises nothing, ends with the
\* message that the data could not be loaded, and builds no slider, chart,
\* table or map.
C14_FatalLoadReported ==
    county.ran =>
        /\ FatalLoad => (county_df = EmptyFrame /\ Len(LoadErrors) = 1)
        /\ IsEmpty(county.county_df) =>
              /\ county.crash = "none"
              /\ Len(county.messages) = Len(LoadErrors) + 1
              /\ county.messages[Len(county.messages)] = "County-level data could not be loaded."
              /\ ~CountyBuiltViews

\* A pass over a file whose Date column holds unparsable values only, in
\* rows that map to a FIPS code.
C14_Witness ==
    /\ county.ran
    /\ BulkHas("Parish")
    /\ BulkHas("Date")
    /\ Len(bulk.df.rows) = MaxRows
    /\ \A i \in BulkRowIds : Mapped(i) /\ Unparsable(bulk.df.rows[i]["Date"])
    /\ county.messages = << "The 'Date' column exists but none of the dates could be parsed.",
                            "County-level data could not be loaded." >>

-----------------------------------------------------------------------------
(* C15 *)

\* The file has no Date column but has a year column.
YearOnly == BulkHas("Parish") /\ ~BulkHas("Date") /\ BulkHas("year")

\* C15: when the file has no Date column but a year column, the year of the
\* dataset is the numeric value of the file's year (missing when it is not
\* numeric), the dataset is not empty whenever some row maps to a FIPS code,
\* and the county-level section of either dashboard then renders its views
\* from it without raising; when a Date column is present, year is the year
\* of the parsed date.
C15_YearFallbackRenders ==
    (county.ran /\ BulkHas("Parish") /\ ~FatalLoad) =>
        /\ YearOnly =>
              /\ Column(county_df, "year")
                    = [k \in 1 .. Len(MappedRowIds) |->
                          to_numeric(bulk.df.rows[MappedRowIds[k]]["year"])]
              /\ Len(MappedRowIds) > 0 => ~IsEmpty(county_df)
              /\ ~IsEmpty(county_df) => (county.crash = "none" /\ county.slider.some)
        /\ BulkHas("Date") =>
              \A k \in 1 .. Len(county_df.rows) :
                  county_df.rows[k]["year"] = dt_year(county_df.rows[k]["Date"])

\* The failing input of C15: economics_dashboard_3cols.py over a file with a
\* year column and no Date column, whose rows map and carry a numeric year.
C15_Scenario ==
    /\ county.ran
    /\ script = "v2"
    /\ YearOnly
    /\ Len(county_df.rows) = MaxRows
    /\ \A k \in 1 .. Len(county_df.rows) : county_df.rows[k]["year"] = {2021}
    /\ DefaultParishes \subseteq ParishesOf(county_df)
    /\ county.crash = "v2:365 county_df[Date] KeyError"
    /\ ~county.slider.some

-----------------------------------------------------------------------------
(* C16 *)

\* C16, the parish table: the table offered for download has exactly the
\* columns and the rows of the table displayed next to the button.
C16_DownloadIsDisplayedTable ==
    (county.ran /\ county.csv.some) =>
        /\ county.table.some
        /\ county.csv.csv = to_csv(county.table.df)

\* C16, the state comparison table: the download is comparison_df as
\* displayed.
C16_StateDownloadIsDisplayedTable ==
    (Rendered /\ download.some) => download.csv = to_csv(comparison_df)

\* The failing input of C16: the displayed parish table has the three columns
\* Date, Parish and the metric, the download has every column of the dataset.
C16_Scenario ==
    /\ county.ran
    /\ county.csv.some
    /\ county.table.df.columns = << "Date", "Parish", "Unemployment Rate" >>
    /\ county.csv.csv.header = << "Parish", "Date", "Unemployment Rate", "year", "fips" >>
    /\ Len(county.csv.csv.lines) = Len(county.table.df.rows)

-----------------------------------------------------------------------------
(* C17 *)

\* C17: when no state is selected, the pass raises nothing, the comparison
\* table has the columns Date and United States and a row for every date of
\* the national series, the line chart has the national trace alone, and the
\* map section shows the informational placeholder.
C17_EmptySelectionRenders ==
    (Rendered /\ states_selected = << >>) =>
        /\ crash = "none"
        /\ comparison_df.columns = << "Date", "United States" >>
        /\ Column(comparison_df, "Date") = Column(NationalSeries, "Date")
        /\ legend = << "United States" >>
        /\ mapview.kind = "info"

\* The failing input of C17: no state is selected and the retrieval of the
\* national series has failed.
C17_Scenario ==
    /\ Rendered
    /\ states_selected = << >>
    /\ IsEmpty(NationalSeries)
    /\ crash \in {"v1:59 us_df[[Date, United States]] KeyError",
                  "v2:147 us_df[[Date, United States]] KeyError"}

\* What C17 describes happens when the national series was retrieved and the
\* date inputs are at their defaults.
C17_Holds ==
    (Rendered /\ states_selected = << >> /\ ~IsEmpty(NationalSeries) /\ AtDefaults) =>
        /\ crash = "none"
        /\ comparison_df.columns = << "Date", "United States" >>
        /\ Column(comparison_df, "Date") = Column(NationalSeries, "Date")
        /\ legend = << "United States" >>
        /\ mapview.kind = "info"

-----------------------------------------------------------------------------
(* C18 *)

\* Every series the pass asked for is stored and holds observations.
NoneFailed ==
    \A id \in SeriesIds :
        Needed(id, states_selected) => (cache[id].present /\ ~IsEmpty(cache[id].value))

\* The upstream is not consulted for a stored series.
NoAnswers == [id \in SeriesIds |-> FetchError]

\* The state-level section of either script over the stored series and the
\* selection of the last pass, the date inputs left at their defaults.
DefaultPass_v1 ==
    LET a == Assemble_v1(cache, NoAnswers, states_selected)
    IN  View_v1(a, states_selected, a.common.start, a.common.end)

DefaultPass_v2 ==
    LET a == Assemble_v2(cache, NoAnswers, states_selected)
    IN  View_v2(a, states_selected, a.common.start, a.common.end,
                YearOf(a.common.start), FALSE)

\* C18: for the same selection, the same fetched series (none failed) and the
\* date inputs at their defaults, both scripts build a filtered comparison_df
\* and the two have the same columns and rows.
C18_SameComparisonTable ==
    (Rendered /\ NoneFailed) =>
        /\ DefaultPass_v1.filtered
        /\ DefaultPass_v2.filtered
        /\ DefaultPass_v1.comparison_df = DefaultPass_v2.comparison_df

\* The failing input of C18: the national range lies outside the common range
\* of the selected states; economics_dashboard.py raises at its date input,
\* economics_dashboard_3cols.py builds a table without rows.
C18_Scenario ==
    /\ Rendered
    /\ NoneFailed
    /\ Len(states_selected) > 0
    /\ DefaultPass_v1.crash = "v1:73 date_input min_value > max_value"
    /\ ~DefaultPass_v1.filtered
    /\ DefaultPass_v2.filtered
    /\ DefaultPass_v2.crash = "none" => Len(DefaultPass_v2.comparison_df.rows) = 0

\* Whenever both scripts build the table, the two tables are equal.
C18_EqualWhenBothBuilt ==
    (Rendered /\ NoneFailed /\ DefaultPass_v1.filtered /\ DefaultPass_v2.filtered) =>
        DefaultPass_v1.comparison_df = DefaultPass_v2.comparison_df

====
